---- MODULE Spec2Model ----
(***************************************************************************)
(* Model of rst_tables.py: the parse_table -> draw_table pipeline and the  *)
(* editor adapter (get_table_bounds / reformat_table).                     *)
(*                                                                         *)
(* A Python str is modelled as a sequence of one-character strings, so a   *)
(* raw line "a|b" is <<"a", "|", "b">>.  A cell is such a sequence and may *)
(* hold the character "\n".  A Python list is a TLA+ sequence.             *)
(***************************************************************************)
EXTENDS Integers, Sequences, FiniteSets, TLC

\* ---------------------------------------------------------------- bounds
\* A block of raw lines has at most MaxLines lines and MaxChars characters in
\* all; reformat_table is run at most MaxPass times on its own output; an
\* editor buffer has at most MaxBuf lines.
MaxLines == 3
MaxChars == 4
MaxPass == 2
MaxBuf == 3

\* Characters the raw input lines are drawn from.
Chars == {"a", " ", "|", "-"}

\* ------------------------------------------------------- Python helpers
\* Characters matched by \s and removed by str.strip().
WS == {" ", "\t", "\n"}

Max2(a, b) == IF a >= b THEN a ELSE b

RECURSIVE lstrip(_)
lstrip(s) ==
    IF s = <<>> THEN <<>>
    ELSE IF Head(s) \in WS THEN lstrip(Tail(s)) ELSE s

RECURSIVE rstrip(_)
rstrip(s) ==
    IF s = <<>> THEN <<>>
    ELSE IF s[Len(s)] \in WS THEN rstrip(SubSeq(s, 1, Len(s) - 1)) ELSE s

strip(s) == rstrip(lstrip(s))

\* Length of the run of whitespace of s that starts at index i.
RECURSIVE WsRun(_, _)
WsRun(s, i) ==
    IF i <= Len(s) /\ s[i] \in WS THEN 1 + WsRun(s, i + 1) ELSE 0

\* sep.join(lines)
RECURSIVE Join(_, _)
Join(lines, sep) ==
    IF lines = <<>> THEN <<>>
    ELSE IF Len(lines) = 1 THEN lines[1]
    ELSE lines[1] \o sep \o Join(Tail(lines), sep)

\* s.split(c) for a one-character separator c: always at least one piece.
RECURSIVE SplitChar(_, _, _)
SplitChar(s, c, cur) ==
    IF s = <<>> THEN <<cur>>
    ELSE IF Head(s) = c THEN <<cur>> \o SplitChar(Tail(s), c, <<>>)
    ELSE SplitChar(Tail(s), c, Append(cur, Head(s)))

\* linechar * width
Repeat(c, n) == [i \in 1..n |-> c]

\* max(...) of a non-empty sequence of numbers
RECURSIVE MaxOf(_)
MaxOf(ns) ==
    IF Len(ns) = 1 THEN ns[1] ELSE Max2(ns[1], MaxOf(Tail(ns)))

\* ------------------------------------------------------------ join_rows
\* Mutant of JoinLoop: a blank field is appended like any other.
RECURSIVE JoinLoop_KeepBlank(_, _)
JoinLoop_KeepBlank(rows, output) ==
    IF rows = <<>> THEN output
    ELSE LET row == Head(rows)
             grown == IF Len(output) <= Len(row)
                      THEN output \o [i \in 1..(Len(row) - Len(output)) |-> <<>>]
                      ELSE output
             filled == [i \in 1..Len(grown) |->
                          IF i <= Len(row)
                          THEN Append(grown[i], strip(row[i]))
                          ELSE grown[i]]
         IN JoinLoop_KeepBlank(Tail(rows), filled)

RECURSIVE JoinLoop(_, _)
JoinLoop(rows, output) ==
    IF rows = <<>> THEN output
    ELSE LET row == Head(rows)
             grown == IF Len(output) <= Len(row)
                      THEN output \o [i \in 1..(Len(row) - Len(output)) |-> <<>>]
                      ELSE output
             filled == [i \in 1..Len(grown) |->
                          IF i <= Len(row) /\ strip(row[i]) # <<>>
                          THEN Append(grown[i], strip(row[i]))
                          ELSE grown[i]]
         IN JoinLoop(Tail(rows), filled)

join_rows(rows) ==
    LET output == JoinLoop(rows, <<>>)
    IN [i \in 1..Len(output) |-> Join(output[i], <<"\n">>)]

\* ---------------------------------------------------- line_is_separator
SepChars == {"\t", " ", "+", "=", "-"}

\* Mutant of line_is_separator: "=" is missing from the character class.
line_is_separator_NoEquals(line) ==
    LET body == IF line # <<>> /\ line[Len(line)] = "\n"
                THEN SubSeq(line, 1, Len(line) - 1) ELSE line
    IN body # <<>> /\ \A i \in 1..Len(body) : body[i] \in SepChars \ {"="}

\* Mutant of line_is_separator: the line is stripped before it is matched.
line_is_separator_Stripped(line) ==
    /\ strip(line) # <<>>
    /\ \A i \in 1..Len(strip(line)) : strip(line)[i] \in SepChars

\* re.match('^[\t +=-]+$', line): '$' also matches before one final "\n".
line_is_separator(line) ==
    LET body == IF line # <<>> /\ line[Len(line)] = "\n"
                THEN SubSeq(line, 1, Len(line) - 1) ELSE line
    IN body # <<>> /\ \A i \in 1..Len(body) : body[i] \in SepChars

has_line_seps(raw_lines) ==
    \E i \in 1..Len(raw_lines) : line_is_separator(raw_lines[i])

\* -------------------------------------------------- partition_raw_lines
\* The loop of lines 66-73; curr_part is the last element of parts.
RECURSIVE PartLoop(_, _)
PartLoop(lines, parts) ==
    IF lines = <<>> THEN parts
    ELSE IF line_is_separator(Head(lines))
         THEN PartLoop(Tail(lines), Append(parts, <<>>))
         ELSE PartLoop(Tail(lines),
                       [parts EXCEPT ![Len(parts)] = Append(@, Head(lines))])

NonEmpty(x) == x # <<>>

\* Mutant of partition_raw_lines: the empty partitions are not removed.
partition_raw_lines_KeepEmpty(raw_lines) ==
    IF ~has_line_seps(raw_lines)
    THEN [i \in 1..Len(raw_lines) |-> <<raw_lines[i]>>]
    ELSE PartLoop(raw_lines, << <<>> >>)

partition_raw_lines(raw_lines) ==
    IF ~has_line_seps(raw_lines)
    THEN [i \in 1..Len(raw_lines) |-> <<raw_lines[i]>>]
    ELSE SelectSeq(PartLoop(raw_lines, << <<>> >>), NonEmpty)

\* ------------------------------------------------------ split_table_row
\* re.sub(r'^\s*\||\|\s*$', '', row_string): the first alternative can match
\* only at offset 0 (leading whitespace and one "|"); the second matches a "|"
\* that only whitespace follows, searched in what the first left over.
StripOuter(s) ==
    LET w == WsRun(s, 1)
        lead == IF w < Len(s) /\ s[w + 1] = "|" THEN w + 1 ELSE 0
        rest == SubSeq(s, lead + 1, Len(s))
        r == rstrip(rest)
    IN IF r # <<>> /\ r[Len(r)] = "|"
       THEN SubSeq(r, 1, Len(r) - 1)
       ELSE rest

\* re.split(r'\s*\|\s*', s): scan from the left; a match starts at i when the
\* whitespace run at i is followed by "|", and takes the whitespace after it.
RECURSIVE SplitPipe(_, _, _)
SplitPipe(s, i, cur) ==
    IF i > Len(s) THEN <<cur>>
    ELSE LET w == WsRun(s, i)
         IN IF i + w <= Len(s) /\ s[i + w] = "|"
            THEN <<cur>> \o SplitPipe(s, i + w + 1 + WsRun(s, i + w + 1), <<>>)
            ELSE SplitPipe(s, i + 1, Append(cur, s[i]))

\* re.split(r'\s\s+', s): a match is a whole whitespace run of length >= 2.
RECURSIVE SplitSpaces(_, _, _)
SplitSpaces(s, i, cur) ==
    IF i > Len(s) THEN <<cur>>
    ELSE LET w == WsRun(s, i)
         IN IF w >= 2
            THEN <<cur>> \o SplitSpaces(s, i + w, <<>>)
            ELSE SplitSpaces(s, i + 1, Append(cur, s[i]))

split_table_row(row_string) ==
    IF \E i \in 1..Len(row_string) : row_string[i] = "|"
    THEN SplitPipe(strip(StripOuter(row_string)), 1, <<>>)
    ELSE SplitSpaces(rstrip(row_string), 1, <<>>)

\* ---------------------------------------------------------- unify_table
\* Lines 88-92: every row padded with '' up to max_fields.
PadRows(table, max_fields) ==
    [r \in 1..Len(table) |->
        table[r] \o [i \in 1..(max_fields - Len(table[r])) |-> <<>>]]

\* Mutant of EmptyCols: a column counts as empty once one row is blank there.
EmptyCols_AnyRow(padded, max_fields) ==
    [i \in 1..max_fields |->
        \E r \in 1..Len(padded) : strip(padded[r][i]) = <<>>]

\* Lines 86, 95-97: empty_cols[i] stays True while no row has text at i.
EmptyCols(padded, max_fields) ==
    [i \in 1..max_fields |->
        \A r \in 1..Len(padded) : strip(padded[r][i]) = <<>>]

\* Lines 104-107: the cells of row whose column is not marked empty.
RECURSIVE KeepCols(_, _, _)
KeepCols(row, empty_cols, i) ==
    IF i > Len(row) THEN <<>>
    ELSE IF empty_cols[i] THEN KeepCols(row, empty_cols, i + 1)
    ELSE <<row[i]>> \o KeepCols(row, empty_cols, i + 1)

\* Defined for a non-empty table; max() of line 85 raises on an empty one.
unify_table(table) ==
    LET max_fields == MaxOf([r \in 1..Len(table) |-> Len(table[r])])
        padded == PadRows(table, max_fields)
        empty_cols == EmptyCols(padded, max_fields)
    IN [r \in 1..Len(padded) |-> KeepCols(padded[r], empty_cols, 1)]

\* ---------------------------------------------------------- parse_table
\* Line 123: one joined row per partition.
join_partitions(row_partition) ==
    [p \in 1..Len(row_partition) |->
        join_rows([k \in 1..Len(row_partition[p]) |->
                      split_table_row(row_partition[p][k])])]

\* ----------------------------------------------------------- table_line
\* Mutant of table_line: the header flag is ignored.
table_line_NoHeader(widths, header) ==
    LET parts == [i \in 1..Len(widths) |-> Repeat("-", widths[i])]
    IN IF parts # <<>>
       THEN Join(<< <<>> >> \o parts \o << <<>> >>, <<"+">>)
       ELSE Join(parts, <<"+">>)

table_line(widths, header) ==
    LET linechar == IF header THEN "=" ELSE "-"
        parts == [i \in 1..Len(widths) |-> Repeat(linechar, widths[i])]
    IN IF parts # <<>>
       THEN Join(<< <<>> >> \o parts \o << <<>> >>, <<"+">>)
       ELSE Join(parts, <<"+">>)

\* ------------------------------------------------------ get_field_width
get_field_width(field_text) ==
    LET ls == SplitChar(field_text, "\n", <<>>)
    IN MaxOf([i \in 1..Len(ls) |-> Len(ls[i])])

\* ------------------------------------------------- split_row_into_lines
\* Defined for a row with at least one field; max() of line 148 raises on [].
split_row_into_lines(row) ==
    LET cells == [c \in 1..Len(row) |-> SplitChar(row[c], "\n", <<>>)]
        height == MaxOf([c \in 1..Len(cells) |-> Len(cells[c])])
    IN [i \in 1..height |->
           [c \in 1..Len(cells) |->
               IF i <= Len(cells[c]) THEN cells[c][i] ELSE <<>>]]

\* ---------------------------------------------------- get_column_widths
RECURSIVE WidthLoop(_, _)
WidthLoop(table, widths) ==
    IF table = <<>> THEN widths
    ELSE LET row == Head(table)
             grown == IF Len(row) >= Len(widths)
                      THEN widths \o [i \in 1..(Len(row) - Len(widths)) |-> 0]
                      ELSE widths
             upd == [i \in 1..Len(grown) |->
                        IF i <= Len(row)
                        THEN Max2(grown[i], get_field_width(row[i]))
                        ELSE grown[i]]
         IN WidthLoop(Tail(table), upd)

get_column_widths(table) == WidthLoop(table, <<>>)

\* ----------------------------------------------------------- pad_fields
\* Mutant of PadCell: the text is not filled up to the column's width.
PadCell_NoFill(text, w) == <<" ">> \o text \o <<" ">>

\* ' %-Ns ' % text: left-justified in N columns, never truncated.
PadCell(text, w) ==
    <<" ">> \o text \o Repeat(" ", Max2(w - Len(text), 0)) \o <<" ">>

pad_fields(row, widths) ==
    [i \in 1..Len(row) |-> PadCell(strip(row[i]), widths[i])]

\* ----------------------------------------------------------- draw_table
\* Lines 206-218 for one row: its sub-lines, then the separator.
RowBlock(row, col_widths, sepline) ==
    LET row_lines == split_row_into_lines(row)
    IN [i \in 1..Len(row_lines) |->
           Join(<< <<>> >> \o pad_fields(row_lines[i], col_widths) \o << <<>> >>,
                <<"|">>)]
       \o <<sepline>>

RECURSIVE Flatten(_)
Flatten(blocks) ==
    IF blocks = <<>> THEN <<>> ELSE Head(blocks) \o Flatten(Tail(blocks))

\* Raises (split_row_into_lines) when a row of a non-empty table has no field.
draw_raises(table) ==
    \E r \in 1..Len(table) : table[r] = <<>>

draw_table(table) ==
    IF table = <<>> THEN <<>>
    ELSE LET col_widths == get_column_widths(table)
             sep_col_widths == [i \in 1..Len(col_widths) |-> col_widths[i] + 2]
             header_line == table_line(sep_col_widths, TRUE)
             normal_line == table_line(sep_col_widths, FALSE)
         IN <<header_line>> \o
            Flatten([r \in 1..Len(table) |->
                        RowBlock(table[r], col_widths,
                                 IF r = 1 THEN header_line ELSE normal_line)])

\* ------------------------------------------------------------- the state
VARIABLES
    raw_lines,      \* parse_table's argument
    row_partition,  \* line 122
    lines,          \* line 123: the joined rows, before unify_table
    table,          \* parse_table's result
    output,         \* draw_table's result
    pass,           \* how many times the pipeline was started on this text
    pc,             \* where the run is
    err,            \* the exception that ended the run, or "none"
    buffer,         \* vim.current.buffer
    cursor,         \* row of vim.current.window.cursor (1-based)
    upper,          \* get_table_bounds
    lower

vars == <<raw_lines, row_partition, lines, table, output, pass, pc, err,
          buffer, cursor, upper, lower>>

pipe_vars == <<raw_lines, row_partition, lines, table, output, pass, err>>
edit_vars == <<buffer, cursor, upper, lower>>

\* ------------------------------------------------------------ the inputs
LinesUpTo(n) == UNION {[1..k -> Chars] : k \in 0..n}

\* Characters of a block.
RECURSIVE TotalLen(_)
TotalLen(b) == IF b = <<>> THEN 0 ELSE Len(Head(b)) + TotalLen(Tail(b))

BufLines == {<<>>, <<" ">>, <<"a">>, <<"-">>}
Buffers == UNION {[1..k -> BufLines] : k \in 1..MaxBuf}

\* ------------------------------------------- parse_table and draw_table
\* parse_table (lines 121-125).  unify_table's max() raises ValueError when
\* no partition is left.
ParseTable ==
    /\ pc = "parse"
    /\ LET parts == partition_raw_lines(raw_lines)
           joined == join_partitions(parts)
       IN /\ row_partition' = parts
          /\ lines' = joined
          /\ IF joined = <<>>
             THEN /\ err' = "ValueError"
                  /\ pc' = "failed"
                  /\ table' = table
             ELSE /\ err' = err
                  /\ pc' = "draw"
                  /\ table' = unify_table(joined)
    /\ UNCHANGED <<raw_lines, output, pass, edit_vars>>

\* draw_table (lines 191-220).  split_row_into_lines' max() raises ValueError
\* on a row without fields.
DrawTable ==
    /\ pc = "draw"
    /\ IF draw_raises(table)
       THEN /\ err' = "ValueError"
            /\ pc' = "failed"
            /\ output' = output
       ELSE /\ err' = err
            /\ pc' = "drawn"
            /\ output' = draw_table(table)
    /\ UNCHANGED <<raw_lines, row_partition, lines, table, pass, edit_vars>>

\* The text the pipeline will be run on gets one more line (any line, blank
\* ones and separators included), within the bounds.
AppendLine ==
    /\ pc = "parse"
    /\ pass = 1
    /\ Len(raw_lines) < MaxLines
    /\ \E l \in LinesUpTo(MaxChars - TotalLen(raw_lines)) :
           raw_lines' = Append(raw_lines, l)
    /\ UNCHANGED <<row_partition, lines, table, output, pass, pc, err, edit_vars>>

\* The rendered lines are given to the pipeline again.
ReformatAgain ==
    /\ pc = "drawn"
    /\ pass < MaxPass
    /\ raw_lines' = output
    /\ pass' = pass + 1
    /\ pc' = "parse"
    /\ UNCHANGED <<row_partition, lines, table, output, err, edit_vars>>

Init ==
    /\ raw_lines = <<>>
    /\ row_partition = <<>>
    /\ lines = <<>>
    /\ table = <<>>
    /\ output = <<>>
    /\ pass = 1
    /\ pc = "parse"
    /\ err = "none"
    /\ buffer = <<>>
    /\ cursor = 0
    /\ upper = 0
    /\ lower = 0

Next == AppendLine \/ ParseTable \/ DrawTable \/ ReformatAgain

Spec == Init /\ [][Next]_vars

\* ------------------------------------- get_table_bounds, reformat_table
\* vim.current.buffer[i] for a 0-based i, by Python's sequence protocol: a
\* negative i counts from the end; outside -len..len-1 it raises IndexError.
IndexInRange(buf, i) == -Len(buf) <= i /\ i < Len(buf)
Item(buf, i) == buf[(IF i < 0 THEN i + Len(buf) ELSE i) + 1]

\* The bounds of buffer[lo:hi]: a negative bound counts from the end, then
\* both are clamped to 0..len and hi to at least lo.
SliceLo(buf, lo) ==
    LET l == IF lo < 0 THEN lo + Len(buf) ELSE lo
    IN IF l < 0 THEN 0 ELSE IF l > Len(buf) THEN Len(buf) ELSE l
SliceHi(buf, lo, hi) ==
    LET h == IF hi < 0 THEN hi + Len(buf) ELSE hi
        h0 == IF h < 0 THEN 0 ELSE h
    IN IF h0 < SliceLo(buf, lo) THEN SliceLo(buf, lo)
       ELSE IF h0 > Len(buf) THEN Len(buf) ELSE h0

\* Lines 7-8.
GetTableBounds ==
    /\ pc = "idle"
    /\ upper' = cursor
    /\ lower' = cursor
    /\ pc' = "scan_upper"
    /\ UNCHANGED <<pipe_vars, buffer, cursor>>

\* Lines 9-15: one test of the while condition.
ScanUpper ==
    /\ pc = "scan_upper"
    /\ IF ~IndexInRange(buffer, upper - 1)
       THEN /\ upper' = upper
            /\ pc' = "scan_lower"
       ELSE IF strip(Item(buffer, upper - 1)) # <<>>
            THEN /\ upper' = upper - 1
                 /\ pc' = pc
            ELSE /\ upper' = upper + 1
                 /\ pc' = "scan_lower"
    /\ UNCHANGED <<pipe_vars, buffer, cursor, lower>>

\* Lines 17-23: one test of the while condition.
ScanLower ==
    /\ pc = "scan_lower"
    /\ IF ~IndexInRange(buffer, lower - 1)
       THEN /\ lower' = lower
            /\ pc' = "bounds"
       ELSE IF strip(Item(buffer, lower - 1)) # <<>>
            THEN /\ lower' = lower + 1
                 /\ pc' = pc
            ELSE /\ lower' = lower - 1
                 /\ pc' = "bounds"
    /\ UNCHANGED <<pipe_vars, buffer, cursor, upper>>

\* Line 226.
ReadSlice ==
    /\ pc = "bounds"
    /\ raw_lines' = SubSeq(buffer, SliceLo(buffer, upper - 1) + 1,
                           SliceHi(buffer, upper - 1, lower))
    /\ pc' = "parse"
    /\ UNCHANGED <<row_partition, lines, table, output, pass, err, edit_vars>>

\* Line 229.
WriteBack ==
    /\ pc = "drawn"
    /\ buffer' = SubSeq(buffer, 1, SliceLo(buffer, upper - 1))
                 \o output
                 \o SubSeq(buffer, SliceHi(buffer, upper - 1, lower) + 1,
                           Len(buffer))
    /\ pc' = "written"
    /\ UNCHANGED <<pipe_vars, cursor, upper, lower>>

InitEditor ==
    /\ buffer \in Buffers
    /\ cursor \in 1..Len(buffer)
    /\ upper = 0
    /\ lower = 0
    /\ raw_lines = <<>>
    /\ row_partition = <<>>
    /\ lines = <<>>
    /\ table = <<>>
    /\ output = <<>>
    /\ pass = 1
    /\ pc = "idle"
    /\ err = "none"

NextEditor ==
    \/ GetTableBounds
    \/ ScanUpper
    \/ ScanLower
    \/ ReadSlice
    \/ ParseTable
    \/ DrawTable
    \/ WriteBack

SpecEditor == InitEditor /\ [][NextEditor]_vars

\* ================================================================ claims
\* parse_table has run on raw_lines: row_partition and lines belong to it.
Parsed == pc \in {"draw", "drawn", "failed", "written"}
\* unify_table has returned: table belongs to lines.
Unified == Parsed /\ lines # <<>>
\* draw_table has returned: output belongs to table.
Drawn == pc \in {"drawn", "written"}

\* The k-th smallest element of a set of numbers.
Kth(S, k) == CHOOSE i \in S : Cardinality({j \in S : j < i}) = k - 1

Pieces(cell) == SplitChar(cell, "\n", <<>>)
IsBlankLine(l) == \A i \in 1..Len(l) : l[i] \in {" ", "\t"}

\* ------------------------------------------------------------------- C3
\* C3: every non-empty block of non-blank lines is parsed and drawn without
\* an exception.
C3_NoInputRejected ==
    (/\ pass = 1
     /\ raw_lines # <<>>
     /\ \A i \in 1..Len(raw_lines) : ~IsBlankLine(raw_lines[i]))
    => err = "none" /\ pc # "failed"

\* ------------------------------------------------------------------- C4
\* C4: on a block of zero lines the pipeline raises nothing and returns no
\* lines.
C4_EmptyInputEmptyOutput ==
    (raw_lines = <<>> /\ pc # "parse")
    => err = "none" /\ pc = "drawn" /\ output = <<>>

\* ------------------------------------------------------------------ C10
\* First and last line (1-based) of the maximal run of non-blank buffer lines
\* that holds the cursor line.
RunFirst ==
    CHOOSE u \in 1..cursor :
        /\ \A i \in u..cursor : strip(buffer[i]) # <<>>
        /\ (u = 1 \/ strip(buffer[u - 1]) = <<>>)
RunLast ==
    CHOOSE l \in cursor..Len(buffer) :
        /\ \A i \in cursor..l : strip(buffer[i]) # <<>>
        /\ (l = Len(buffer) \/ strip(buffer[l + 1]) = <<>>)

\* C10: with the cursor on a non-blank line get_table_bounds returns the
\* first and the last line of the run of non-blank lines around the cursor,
\* also when the run reaches the first or the last line of the buffer.
C10_TableBounds ==
    (pc = "bounds" /\ strip(buffer[cursor]) # <<>>)
    => upper = RunFirst /\ lower = RunLast

\* ------------------------------------------------------------------- C7
IsSep(i) == line_is_separator(raw_lines[i])
\* Where a run of non-separator lines of raw_lines starts, and where the run
\* that starts at i ends.
RunStarts ==
    {i \in 1..Len(raw_lines) : ~IsSep(i) /\ (i = 1 \/ IsSep(i - 1))}
RunEnd(i) ==
    CHOOSE e \in i..Len(raw_lines) :
        /\ \A j \in i..e : ~IsSep(j)
        /\ (e = Len(raw_lines) \/ IsSep(e + 1))

\* C7: without a separator line every line is a partition of its own; with
\* one, the partitions are the maximal runs of non-separator lines, in order,
\* none of them empty.
C7_Partition ==
    Parsed =>
        IF \A i \in 1..Len(raw_lines) : ~IsSep(i)
        THEN /\ Len(row_partition) = Len(raw_lines)
             /\ \A i \in 1..Len(raw_lines) : row_partition[i] = <<raw_lines[i]>>
        ELSE /\ Len(row_partition) = Cardinality(RunStarts)
             /\ \A k \in 1..Len(row_partition) :
                    /\ row_partition[k] # <<>>
                    /\ row_partition[k] =
                         SubSeq(raw_lines, Kth(RunStarts, k),
                                RunEnd(Kth(RunStarts, k)))

\* A separator line splits a block of text lines in two partitions.
C7_Witness ==
    /\ Parsed
    /\ \E i \in 1..Len(raw_lines) : IsSep(i)
    /\ Len(row_partition) = 2
    /\ \A k \in 1..2 : ~IsBlankLine(row_partition[k][1])

\* ------------------------------------------------------------------- C8
\* The fields split from the raw lines of partition p.
FieldsOf(p) ==
    [k \in 1..Len(row_partition[p]) |-> split_table_row(row_partition[p][k])]

\* The trimmed non-blank fields at column i of rows, in row order.
RECURSIVE ColumnTexts(_, _)
ColumnTexts(rows, i) ==
    IF rows = <<>> THEN <<>>
    ELSE (IF i <= Len(Head(rows)) /\ strip(Head(rows)[i]) # <<>>
          THEN <<strip(Head(rows)[i])>> ELSE <<>>)
         \o ColumnTexts(Tail(rows), i)

\* C8: a joined row has as many cells as its longest field list; cell i is
\* the newline-joined trimmed non-blank fields at index i; so no cell has an
\* empty embedded line or surrounding whitespace.
C8_JoinRows ==
    Parsed =>
        /\ Len(lines) = Len(row_partition)
        /\ \A p \in 1..Len(lines) :
              LET rows == FieldsOf(p)
              IN /\ \A k \in 1..Len(rows) : Len(rows[k]) <= Len(lines[p])
                 /\ \E k \in 1..Len(rows) : Len(rows[k]) = Len(lines[p])
                 /\ \A i \in 1..Len(lines[p]) :
                       /\ lines[p][i] = Join(ColumnTexts(rows, i), <<"\n">>)
                       /\ lines[p][i] # <<>> =>
                            \A j \in 1..Len(Pieces(lines[p][i])) :
                                /\ Pieces(lines[p][i])[j] # <<>>
                                /\ strip(Pieces(lines[p][i])[j])
                                     = Pieces(lines[p][i])[j]

\* A partition of two raw lines whose fields were joined into a two-line
\* cell, one field having been trimmed.
C8_Witness ==
    /\ Parsed
    /\ \E p \in 1..Len(lines) :
          /\ Len(row_partition[p]) >= 2
          /\ \E i \in 1..Len(lines[p]) : Len(Pieces(lines[p][i])) = 2
          /\ \E k \in 1..Len(FieldsOf(p)) : \E i \in 1..Len(FieldsOf(p)[k]) :
                strip(FieldsOf(p)[k][i]) # FieldsOf(p)[k][i]

\* ------------------------------------------------------------------- C5
MaxFields == MaxOf([r \in 1..Len(lines) |-> Len(lines[r])])
\* Cell i of row r of the joined table once the row is padded with ''.
PaddedCell(r, i) == IF i <= Len(lines[r]) THEN lines[r][i] ELSE <<>>
BlankColumns ==
    {i \in 1..MaxFields : \A r \in 1..Len(lines) : strip(PaddedCell(r, i)) = <<>>}
KeptColumns == (1..MaxFields) \ BlankColumns

\* C5: unify_table keeps the rows and their order; every row gets as many
\* cells as the longest row has, less the columns blank in every padded row;
\* the cells left are the padded row's, in their order, unchanged.
C5_Unify ==
    Unified =>
        /\ Len(table) = Len(lines)
        /\ \A r \in 1..Len(table) :
              /\ Len(table[r]) = MaxFields - Cardinality(BlankColumns)
              /\ \A j \in 1..Len(table[r]) :
                    table[r][j] = PaddedCell(r, Kth(KeptColumns, j))

\* A short row was padded and a blank column before a kept one was dropped.
C5_Witness ==
    /\ Unified
    /\ \E r \in 1..Len(lines) : Len(lines[r]) < MaxFields
    /\ \E i \in BlankColumns : \E j \in KeptColumns : i < j

\* ------------------------------------------------------------------- C6
NumCols == Len(table[1])
IsData(l) == l # <<>> /\ l[1] = "|"

\* C6: the width of column c is the length of the longest embedded line of a
\* cell of column c; in every data line the text between the c-th and the
\* next "|" has that width + 2 characters, and so has the c-th run of fill
\* characters of every border line.
C6_Widths ==
    Drawn =>
        LET w == get_column_widths(table)
        IN /\ Len(w) = NumCols
           /\ \A c \in 1..NumCols :
                 /\ \A r \in 1..Len(table) :
                       \A j \in 1..Len(Pieces(table[r][c])) :
                           Len(Pieces(table[r][c])[j]) <= w[c]
                 /\ \E r \in 1..Len(table) :
                       \E j \in 1..Len(Pieces(table[r][c])) :
                           Len(Pieces(table[r][c])[j]) = w[c]
           /\ \A k \in 1..Len(output) :
                 LET parts == SplitChar(output[k],
                                        IF IsData(output[k]) THEN "|" ELSE "+",
                                        <<>>)
                 IN /\ Len(parts) = NumCols + 2
                    /\ parts[1] = <<>>
                    /\ parts[Len(parts)] = <<>>
                    /\ \A c \in 1..NumCols : Len(parts[c + 1]) = w[c] + 2

\* Two columns of different widths and a cell shorter than its column.
C6_Witness ==
    /\ Drawn
    /\ NumCols >= 2
    /\ get_column_widths(table)[1] # get_column_widths(table)[2]
    /\ \E r \in 1..Len(table) : \E c \in 1..NumCols :
          get_field_width(table[r][c]) < get_column_widths(table)[c]

\* ------------------------------------------------------------------- C1
\* C1: when the pipeline has produced O, the pipeline run on O raises
\* nothing and produces O again.
C1_Idempotent ==
    pass >= 2 => /\ pc # "failed"
                 /\ Drawn => output = raw_lines

\* A second run over a table of two rows with a blank cell.
C1_Witness ==
    /\ pass = 2
    /\ Drawn
    /\ Len(table) >= 2
    /\ \E r \in 1..Len(table) : \E c \in 1..NumCols : table[r][c] = <<>>
    /\ \E r \in 1..Len(table) : \E c \in 1..NumCols : table[r][c] # <<>>

\* ------------------------------------------------------------------- C2
\* A border line: "+" and runs of one fill character.
IsBorder(l, fill) ==
    /\ l # <<>>
    /\ l[1] = "+"
    /\ \A i \in 1..Len(l) : l[i] \in {"+", fill}
    /\ \E i \in 1..Len(l) : l[i] = fill
BorderLines == {k \in 1..Len(output) : ~IsData(output[k])}

\* Number of output lines row r takes: the most embedded lines of its cells.
RowHeight(r) ==
    MaxOf([c \in 1..Len(table[r]) |-> Len(Pieces(table[r][c]))])
\* Index in output of the border that follows row r (0: the top border).
RECURSIVE BorderAfter(_)
BorderAfter(r) == IF r = 0 THEN 1 ELSE BorderAfter(r - 1) + RowHeight(r) + 1

C9_StrippedSeparator ==
    Parsed =>
        \A i \in 1..Len(raw_lines) :
            line_is_separator(raw_lines[i]) <=>
                /\ strip(raw_lines[i]) # <<>>
                /\ \A j \in 1..Len(strip(raw_lines[i])) :
                       strip(raw_lines[i])[j] \in {"\t", " ", "+", "=", "-"}

\* C9 amended: a separator is a line that is not empty and holds only tab,
\* space, "+", "=" and "-", nothing being stripped: a non-empty line of
\* spaces and tabs is a separator.
C9_Separator ==
    Parsed =>
        \A i \in 1..Len(raw_lines) :
            line_is_separator(raw_lines[i]) <=>
                /\ Len(raw_lines[i]) >= 1
                /\ \A j \in 1..Len(raw_lines[i]) :
                       raw_lines[i][j] \in {"\t", " ", "+", "=", "-"}

\* A block with a line of spaces, which was taken for a separator, and a
\* line of text with a "-" in it, which was not.
C9_Witness ==
    /\ Parsed
    /\ \E i \in 1..Len(raw_lines) :
          /\ raw_lines[i] # <<>>
          /\ IsBlankLine(raw_lines[i])
          /\ Len(row_partition) < Len(raw_lines)
    /\ \E i \in 1..Len(raw_lines) :
          /\ \E j \in 1..Len(raw_lines[i]) : raw_lines[i][j] = "-"
          /\ ~line_is_separator(raw_lines[i])

====
